---- MODULE Spec2Model ----
(***************************************************************************)
(* The iterative command-driven repair loop of                             *)
(* src/src/langest/agents/autonomous_debugger.py                           *)
(* (class AutonomousDebuggingAgent): execute_command, read_file,           *)
(* list_files, analyze_and_fix_issue, apply_solution, debug_until_working, *)
(* _cleanup_ports and run_comprehensive_debug.                             *)
(*                                                                         *)
(* One agent object is modelled.  Its caller either calls                  *)
(* debug_until_working directly (up to MaxCalls times on the same agent,   *)
(* as examples/auto_debug_application.py does) or calls                    *)
(* run_comprehensive_debug once.  The environment (the shell, the          *)
(* filesystem, the language model) is nondeterministic.                    *)
(*                                                                         *)
(* The update loop of src/src/langest/agents/autonomous_updater.py (class  *)
(* AutonomousUpdaterAgent: analyze_and_propose_changes, apply_changes,     *)
(* run_update) is modelled on an agent object of its own, under the        *)
(* specification SpecUpdate.                                               *)
(***************************************************************************)
EXTENDS Integers, Sequences, FiniteSets, TLC

(***************************************************************************)
(* Bounds of the model.                                                    *)
(***************************************************************************)
\* self.max_iterations: 10 in the source (line 31), scaled down here.
max_iterations == 2
\* Number of direct debug_until_working calls made on the one agent.
MaxCalls == 2
\* Number of failing runs of a target command over the direct calls.
MaxFailures == 4
\* Number of failing runs of a target command in one run_comprehensive_debug.
MaxChecklistFailures == 2
\* Number of anomalies of the environment in one behaviour: runner faults
\* of a target run (timeout, spawn error) and degraded diagnoses.
MaxAnomalies == 1
\* AutonomousUpdaterAgent.max_iterations: 5 in the source
\* (autonomous_updater.py line 25), scaled down here.
update_max_iterations == 2
\* Number of run_update calls made on the one updater agent.
MaxUpdateCalls == 2
\* Number of failing runs of the verification command over those calls.
MaxVerificationFailures == 2

(***************************************************************************)
(* Paths.  A path string is a sequence of one-character strings, so that   *)
(* str.startswith is a real prefix test on characters.  A file name such   *)
(* as "a" stands for a name with a recognised extension ("a.py").          *)
(***************************************************************************)
SEP == "/"

\* str.startswith(prefix)
StartsWith(s, prefix) ==
    /\ Len(s) >= Len(prefix)
    /\ SubSeq(s, 1, Len(prefix)) = prefix

\* os.path.isabs
IsAbs(p) == Len(p) > 0 /\ p[1] = SEP

\* os.path.join(a, b): an absolute b discards a.
PathJoin(a, b) ==
    IF IsAbs(b) THEN b
    ELSE IF a = <<>> \/ a[Len(a)] = SEP THEN a \o b
    ELSE a \o <<SEP>> \o b

\* str.split("/"): the components of a path string, empty ones included.
RECURSIVE SplitFrom(_, _, _)
SplitFrom(p, i, cur) ==
    IF i > Len(p) THEN <<cur>>
    ELSE IF p[i] = SEP THEN <<cur>> \o SplitFrom(p, i + 1, <<>>)
    ELSE SplitFrom(p, i + 1, Append(cur, p[i]))

Split(p) == SplitFrom(p, 1, <<>>)

\* The component loop of posixpath.normpath for an absolute path: empty
\* and "." components are dropped, ".." pops (and is dropped at the root).
RECURSIVE NormComps(_, _, _)
NormComps(comps, i, acc) ==
    IF i > Len(comps) THEN acc
    ELSE IF comps[i] = <<>> \/ comps[i] = <<".">> THEN NormComps(comps, i + 1, acc)
    ELSE IF comps[i] = <<".", ".">>
         THEN NormComps(comps, i + 1,
                        IF acc = <<>> THEN acc ELSE SubSeq(acc, 1, Len(acc) - 1))
    ELSE NormComps(comps, i + 1, Append(acc, comps[i]))

\* "/" + "/".join(comps)
RECURSIVE JoinComps(_, _)
JoinComps(comps, i) ==
    IF i > Len(comps) THEN <<>>
    ELSE <<SEP>> \o comps[i] \o JoinComps(comps, i + 1)

Render(comps) == IF comps = <<>> THEN <<SEP>> ELSE JoinComps(comps, 1)

\* The process's current directory (os.getcwd()).
Cwd == <<"/">>

\* os.path.abspath(p) = normpath(join(getcwd(), p))
AbsComps(p) == NormComps(Split(PathJoin(Cwd, p)), 1, <<>>)
AbsPath(p) == Render(AbsComps(p))

(***************************************************************************)
(* The filesystem the agent reads.  The project root is /p with the        *)
(* subdirectories backend (b) and frontend (f); /pq is a sibling directory *)
(* whose name starts with the root's name; /e is unrelated.                *)
(***************************************************************************)
ProjectRoot == <<"/", "p">>
BackendDir == <<"b">>
FrontendDir == <<"f">>

Files == { <<"/", "p", "/", "a">>,
           <<"/", "p", "/", "b", "/", "a">>,
           <<"/", "p", "q", "/", "s">>,
           <<"/", "e", "/", "s">> }

Dirs == { <<"/">>,
          <<"/", "p">>,
          <<"/", "p", "/", "b">>,
          <<"/", "p", "/", "f">>,
          <<"/", "p", "q">>,
          <<"/", "e">> }

\* os.path.exists / os.path.isdir / open(): the kernel resolves "." and
\* ".." (no symbolic links in the modelled tree).
Exists(p) == AbsPath(p) \in Files \cup Dirs
IsDir(p) == AbsPath(p) \in Dirs
IsFile(p) == AbsPath(p) \in Files

(***************************************************************************)
(* Command Runner: execute_command.  What the spawned process does is the  *)
(* environment's choice: it exits with a code, or subprocess.run raises    *)
(* TimeoutExpired, or it raises another exception.  A text (stdout) is     *)
(* modelled by the sequence of path-like tokens it contains, the only part *)
(* of it the agent inspects.                                               *)
(***************************************************************************)
NoMention == <<>>
FileTokens == { <<"a">>,
                <<"x">>,
                <<".", ".", "/", "p", "q", "/", "s">>,
                <<".", ".", "/", "e", "/", "s">>,
                <<"/", "e", "/", "s">> }
DirTokens == { <<"b">>,
               <<".", ".", "/", "p", "q">>,
               <<"/", "e">> }
Mentions == { <<[kind |-> "file", path |-> t]>> : t \in FileTokens }
            \cup { <<[kind |-> "dir", path |-> t]>> : t \in DirTokens }
Texts == {NoMention} \cup Mentions

ExitCodes == {0, 1, 124}
TimeoutMessage == "Command timed out after 60 seconds"
FaultMessage == "str(e)"

Exited(code, out) ==
    [kind |-> "exit", code |-> code, stdout |-> out, stderr |-> "stderr"]
TimedOut == [kind |-> "timeout", code |-> 0, stdout |-> NoMention, stderr |-> ""]
Faulted == [kind |-> "fault", code |-> 0, stdout |-> NoMention, stderr |-> ""]

\* What a run of a command can do.
ProcessOutcomes ==
    { Exited(0, NoMention), Exited(124, NoMention) }
    \cup { Exited(1, t) : t \in Texts }
    \cup { TimedOut, Faulted }

\* A runner that takes every code but 1 for success.
ExitSuccess_NotOne(code) == code # 1

\* result.returncode == 0 (line 86)
ExitSuccess(code) == code = 0

\* Exit code of the TimeoutExpired branch (line 107)
TimeoutCode == 124

\* Exit code of the generic exception branch (line 116)
FaultCode == 1

execute_command(command, cwd, outcome) ==
    IF outcome.kind = "exit"
    THEN [command |-> command, stdout |-> outcome.stdout, stderr |-> outcome.stderr,
          return_code |-> outcome.code, success |-> ExitSuccess(outcome.code),
          cwd |-> cwd]
    ELSE IF outcome.kind = "timeout"
    THEN [command |-> command, stdout |-> NoMention, stderr |-> TimeoutMessage,
          return_code |-> TimeoutCode, success |-> FALSE, cwd |-> cwd]
    ELSE [command |-> command, stdout |-> NoMention, stderr |-> FaultMessage,
          return_code |-> FaultCode, success |-> FALSE, cwd |-> cwd]

\* No command has been run yet in the current session.
NoResult ==
    [command |-> "", stdout |-> NoMention, stderr |-> "", return_code |-> 0,
     success |-> FALSE, cwd |-> <<>>]

(***************************************************************************)
(* Context Extractor: read_file and list_files.                            *)
(***************************************************************************)
\* The containment test of lines 144 and 165.
WithinProject(abs_path, abs_project_path) == StartsWith(abs_path, abs_project_path)

read_file(file_path, project_path) ==
    LET abs_project_path == AbsPath(project_path)
        abs_file_path == AbsPath(file_path)
    IN  IF ~WithinProject(abs_file_path, abs_project_path)
        THEN [kind |-> "restricted", of |-> abs_file_path]
        ELSE IF abs_file_path \in Files
        THEN [kind |-> "content", of |-> abs_file_path]
        ELSE IF abs_file_path \in Dirs
        THEN [kind |-> "error", of |-> abs_file_path]
        ELSE [kind |-> "not_found", of |-> abs_file_path]

list_files(dir_path, project_path) ==
    LET abs_project_path == AbsPath(project_path)
        abs_dir_path == AbsPath(dir_path)
    IN  IF ~WithinProject(abs_dir_path, abs_project_path)
        THEN [kind |-> "restricted", of |-> abs_dir_path]
        ELSE IF abs_dir_path \notin Dirs
        THEN [kind |-> "not_a_directory", of |-> abs_dir_path]
        ELSE [kind |-> "listing", of |-> abs_dir_path]

\* The log-file heuristic of lines 365-375: the startup probes redirect to
\* <name>.log after "cd backend" / "cd frontend".
LogFileOf(target_command) ==
    IF target_command = "backend_startup_command"
    THEN { PathJoin(BackendDir, <<"l">>) }
    ELSE IF target_command = "frontend_startup_command"
    THEN { PathJoin(FrontendDir, <<"l">>) }
    ELSE {}

\* Lines 356-400: the blocks added to the context for one failure text.
files_to_read(error_output, target_command) ==
    { error_output[i].path : i \in { j \in 1..Len(error_output) :
                                        error_output[j].kind = "file" } }
    \cup LogFileOf(target_command)

dirs_to_list(error_output) ==
    { error_output[i].path : i \in { j \in 1..Len(error_output) :
                                        error_output[j].kind = "dir" } }

ExtractContext(error_output, target_command, project_path) ==
    { [name |-> f, kind |-> "file",
       out |-> read_file(PathJoin(project_path, f), project_path)] :
        f \in { g \in files_to_read(error_output, target_command) :
                   Exists(PathJoin(project_path, g)) } }
    \cup
    { [name |-> d, kind |-> "dir",
       out |-> list_files(PathJoin(project_path, d), project_path)] :
        d \in { g \in dirs_to_list(error_output) :
                   IsDir(PathJoin(project_path, g)) } }

(***************************************************************************)
(* Remediations (the "solution" dictionaries parsed from the oracle).  A   *)
(* list field is absent (dict.get then yields []), a list, or some other   *)
(* JSON value; a file entry may lack its "path" or "content" key.          *)
(***************************************************************************)
Absent == [kind |-> "absent", items |-> <<>>]
ListOf(items) == [kind |-> "list", items |-> items]
NotAList == [kind |-> "not_list", items |-> <<>>]

FileEntry(path, content) ==
    [has_path |-> TRUE, path |-> path, has_content |-> TRUE, content |-> content]
NoPathEntry(content) ==
    [has_path |-> FALSE, path |-> <<>>, has_content |-> TRUE, content |-> content]
NoContentEntry(path) ==
    [has_path |-> TRUE, path |-> path, has_content |-> FALSE, content |-> ""]

Remediation(type, creates, updates, commands) ==
    [solution_type |-> type, files_to_create |-> creates,
     files_to_update |-> updates, commands_to_run |-> commands]

\* Creates A and B, updates B, runs two auxiliary commands.
SolFix ==
    Remediation("FILE_CREATE",
                ListOf(<<FileEntry(<<"a">>, "a1"), FileEntry(<<"n">>, "n1")>>),
                ListOf(<<FileEntry(<<"n">>, "n2")>>),
                ListOf(<<"c1", "c2">>))
\* A file entry without "path".
SolNoPath ==
    Remediation("FILE_CREATE",
                ListOf(<<FileEntry(<<"a">>, "a1"), NoPathEntry("n1")>>),
                Absent, Absent)
\* A file entry without "content".
SolNoContent ==
    Remediation("FILE_UPDATE", Absent, ListOf(<<NoContentEntry(<<"a">>)>>), Absent)
\* A list field that is not a list (null).
SolNotList ==
    Remediation("COMMAND_RUN", ListOf(<<FileEntry(<<"a">>, "a1")>>), Absent, NotAList)

ParsedSolutions == {SolFix, SolNoPath, SolNoContent, SolNotList}

\* A parse-failure remediation that carries a file to create.
ManualSolution_WithFile ==
    Remediation("MANUAL_ANALYSIS", ListOf(<<FileEntry(<<"a">>, "a1")>>), Absent, Absent)

\* The degraded remediations of lines 285-289 and 295.
ManualSolution == Remediation("MANUAL_ANALYSIS", Absent, Absent, Absent)
ErrorSolution == Remediation("ERROR", Absent, Absent, Absent)
NoSolution == Remediation("", Absent, Absent, Absent)

(***************************************************************************)
(* Diagnosis: analyze_and_fix_issue.  One response of the language model   *)
(* is: llm.invoke raises; the text holds no JSON candidate; the candidate  *)
(* does not decode; or it decodes to a dictionary.                         *)
(***************************************************************************)
Raises == [kind |-> "raise", solution |-> NoSolution]
NoJson == [kind |-> "no_json", solution |-> NoSolution]
BadJson == [kind |-> "bad_json", solution |-> NoSolution]
Json(sol) == [kind |-> "json", solution |-> sol]
\* What one stage of the extraction finds in a response text: nothing, a
\* text that json.loads rejects, or a text that decodes to a dictionary.
NoPayload == [kind |-> "none", solution |-> NoSolution]
InvalidPayload == [kind |-> "invalid", solution |-> NoSolution]
ValidPayload(sol) == [kind |-> "valid", solution |-> sol]

\* One llm.invoke: it raises, or returns a text, described by what the
\* fenced-block pattern of line 257 matches in it and by what its
\* first-brace/last-brace slice (lines 262-265) is.
RaisingCall == [raises |-> TRUE, fence |-> NoPayload, slice |-> NoPayload]
Text(fence, slice) == [raises |-> FALSE, fence |-> fence, slice |-> slice]
NoCall == [raises |-> FALSE, fence |-> NoPayload, slice |-> NoPayload]

\* The texts the language model may return.  A text with a fenced block
\* has braces, hence a slice.  The last one is a bare JSON object whose
\* strings quote a fenced block ("... ```{x}``` ..."): the pattern matches
\* the quoted block, the slice is the whole object.
ResponseTexts ==
    { Text(NoPayload, NoPayload), Text(NoPayload, InvalidPayload),
      Text(InvalidPayload, InvalidPayload),
      Text(ValidPayload(SolFix), InvalidPayload),
      Text(InvalidPayload, ValidPayload(SolFix)) }
    \cup { Text(NoPayload, ValidPayload(sol)) : sol \in ParsedSolutions }

\* Lines 254-265: the candidate text handed to json.loads.
json_text(text) == IF text.fence.kind # "none" THEN text.fence ELSE text.slice

\* Lines 250-282: what the attempt makes of the call.
Parse(reply) ==
    IF reply.raises THEN Raises
    ELSE IF json_text(reply).kind = "none" THEN NoJson
    ELSE IF json_text(reply).kind = "invalid" THEN BadJson
    ELSE Json(json_text(reply).solution)

Responses == { Parse(reply) : reply \in {RaisingCall} \cup ResponseTexts }

\* A diagnosis that is given the whole history.
debug_history_short_All(history) == history

\* self.debug_history[-2:] (line 184)
debug_history_short(history) ==
    IF Len(history) <= 2 THEN history
    ELSE SubSeq(history, Len(history) - 1, Len(history))

\* range(2) (line 248)
Attempts == 2

\* One pass of the loop of lines 248-292 with the given response:
\* whether analyze_and_fix_issue returns, and what.
AttemptOutcome(attempt, response) ==
    IF response.kind = "json"
    THEN [returns |-> TRUE, solution |-> response.solution]
    ELSE IF response.kind = "no_json"
    THEN [returns |-> TRUE, solution |-> ManualSolution]
    ELSE IF response.kind = "bad_json"
    THEN IF attempt = 0
         THEN [returns |-> FALSE, solution |-> NoSolution]
         ELSE [returns |-> TRUE, solution |-> ManualSolution]
    ELSE IF attempt + 1 < Attempts
    THEN [returns |-> FALSE, solution |-> NoSolution]
    ELSE [returns |-> TRUE, solution |-> ErrorSolution]

(***************************************************************************)
(* Remediation Applier: apply_solution.  write_fails is the set of write   *)
(* attempts (numbered from 1 over creates then updates) whose write_file   *)
(* returns False; cmd_fails the set of auxiliary commands that fail.       *)
(***************************************************************************)
\* solution.get(key, [])
Get(field) == field.items

\* One of the loops of lines 306-309 / 312-315.  A missing key raises
\* KeyError at that entry; the writes before it have been made.
RECURSIVE WriteLoop(_, _, _, _, _)
WriteLoop(items, i, project_path, base, write_fails) ==
    IF i > Len(items) THEN [raised |-> FALSE, writes |-> <<>>]
    ELSE IF ~items[i].has_path \/ ~items[i].has_content
    THEN [raised |-> TRUE, writes |-> <<>>]
    ELSE LET rest == WriteLoop(items, i + 1, project_path, base, write_fails)
         IN  [raised |-> rest.raised,
              writes |-> <<[path |-> PathJoin(project_path, items[i].path),
                            content |-> items[i].content,
                            ok |-> (base + i) \notin write_fails]>> \o rest.writes]

\* A success flag that is overwritten by every write, so that only the
\* last one counts.
AllWritten_LastOnly(writes) == writes = <<>> \/ writes[Len(writes)].ok

\* success (lines 303, 309, 315)
AllWritten(writes) == \A i \in 1..Len(writes) : writes[i].ok

\* A write_file that leaves an existing file as it is.
write_file_KeepsExisting(fs, w) ==
    IF w.ok /\ w.path \notin DOMAIN fs THEN (w.path :> w.content) @@ fs ELSE fs

\* The effect of write_file on the written files (a function from path to
\* content): open(file_path, 'w') replaces the content; a failed write
\* leaves the file as it was.
write_file(fs, w) ==
    IF w.ok THEN (w.path :> w.content) @@ fs ELSE fs

\* The files written by the first n write attempts of one apply_solution,
\* made in the order of the attempts.
RECURSIVE FilesAfter(_, _)
FilesAfter(writes, n) ==
    IF n = 0 THEN << >>
    ELSE write_file(FilesAfter(writes, n - 1), writes[n])

\* A loop that breaks at the first failing command.
CommandLoop_StopsAtFailure(commands, project_path, cmd_fails) ==
    [i \in { j \in 1..Len(commands) : \A k \in 1..(j - 1) : k \notin cmd_fails } |->
        execute_command(commands[i], project_path,
                        IF i \in cmd_fails THEN Exited(1, NoMention)
                        ELSE Exited(0, NoMention))]

\* The loop of lines 318-322.
CommandLoop(commands, project_path, cmd_fails) ==
    [i \in 1..Len(commands) |->
        execute_command(commands[i], project_path,
                        IF i \in cmd_fails THEN Exited(1, NoMention)
                        ELSE Exited(0, NoMention))]

Applied(raised, writes, commands) ==
    [raised |-> raised, success |-> AllWritten(writes), writes |-> writes,
     commands |-> commands]

NotApplied == Applied(FALSE, <<>>, <<>>)

apply_solution(solution, project_path, write_fails, cmd_fails) ==
    IF solution.files_to_create.kind = "not_list"
    THEN Applied(TRUE, <<>>, <<>>)
    ELSE
    LET creates == Get(solution.files_to_create)
        c == WriteLoop(creates, 1, project_path, 0, write_fails)
    IN  IF c.raised \/ solution.files_to_update.kind = "not_list"
        THEN Applied(TRUE, c.writes, <<>>)
        ELSE
        LET u == WriteLoop(Get(solution.files_to_update), 1, project_path,
                           Len(creates), write_fails)
        IN  IF u.raised \/ solution.commands_to_run.kind = "not_list"
            THEN Applied(TRUE, c.writes \o u.writes, <<>>)
            ELSE Applied(FALSE, c.writes \o u.writes,
                         CommandLoop(Get(solution.commands_to_run), project_path,
                                     cmd_fails))

\* The number of write attempts and auxiliary commands of a remediation.
NumWrites(solution) ==
    Len(Get(solution.files_to_create)) + Len(Get(solution.files_to_update))
NumCommands(solution) == Len(Get(solution.commands_to_run))

(***************************************************************************)
(* run_comprehensive_debug: its statements in program order.               *)
(***************************************************************************)
\* The two startup probes (lines 502-505 and 516-519), by their names.
BackendStartup == "backend_startup_command"
FrontendStartup == "frontend_startup_command"

\* The service-startup probes of the checklist.
IsStartupProbe(command) == command \in {BackendStartup, FrontendStartup}

Session(command, path, key) ==
    [kind |-> "session", command |-> command, path |-> path, key |-> key]

\* A checklist that builds the backend before installing dependencies.
ComprehensiveSteps_BuildFirst ==
    << Session("cd backend && go build", ProjectRoot, "backend_build"),
       Session("go mod tidy", PathJoin(ProjectRoot, BackendDir), "backend_deps"),
       Session("npm install", PathJoin(ProjectRoot, FrontendDir), "frontend_deps"),
       Session("cd frontend && npm run build", ProjectRoot, "frontend_build"),
       Session("tilt doctor", ProjectRoot, "tilt_setup"),
       [kind |-> "cleanup", command |-> "", path |-> ProjectRoot, key |-> ""],
       Session(BackendStartup, ProjectRoot, "backend_start"),
       Session(FrontendStartup, ProjectRoot, "frontend_start"),
       Session("make test", ProjectRoot, "tests") >>

ComprehensiveSteps ==
    << Session("go mod tidy", PathJoin(ProjectRoot, BackendDir), "backend_deps"),
       Session("npm install", PathJoin(ProjectRoot, FrontendDir), "frontend_deps"),
       Session("cd backend && go build", ProjectRoot, "backend_build"),
       Session("cd frontend && npm run build", ProjectRoot, "frontend_build"),
       Session("tilt doctor", ProjectRoot, "tilt_setup"),
       [kind |-> "cleanup", command |-> "", path |-> ProjectRoot, key |-> ""],
       Session(BackendStartup, ProjectRoot, "backend_start"),
       Session(FrontendStartup, ProjectRoot, "frontend_start"),
       Session("make test", ProjectRoot, "tests") >>

\* The keys of the results dictionary (lines 453-461).
ResultKeys ==
    {"backend_build", "frontend_build", "dependencies", "tilt_setup",
     "backend_start", "frontend_start", "tests"}

\* _cleanup_ports([8080, 3000], ...): two commands per port (lines 432-441).
CleanupCommands ==
    <<"lsof -t -i:8080 | xargs kill -9 2>/dev/null || true",
      "fuser -k 8080/tcp 2>/dev/null || true",
      "lsof -t -i:3000 | xargs kill -9 2>/dev/null || true",
      "fuser -k 3000/tcp 2>/dev/null || true">>

\* The commands of the direct calls of the caller
\* (examples/auto_debug_application.py).
DirectCommand(k) ==
    IF k = 1 THEN "tilt validate" ELSE "timeout 30s tilt up --stream=false"

(***************************************************************************)
(* AutonomousUpdaterAgent (autonomous_updater.py): the change sets parsed  *)
(* from the oracle, execute_command, analyze_and_propose_changes and       *)
(* apply_changes.  A change set has the list fields of a remediation       *)
(* (absent, a list, or null) and a plan; the dictionary returned for an    *)
(* unparseable response has the key raw_response.                          *)
(***************************************************************************)
Changes(plan, creates, updates, commands, raw) ==
    [plan |-> plan, files_to_create |-> creates, files_to_update |-> updates,
     commands_to_run |-> commands, raw_response |-> raw]

\* Creates A, updates B, runs one command.
ChgFix ==
    Changes("plan", ListOf(<<FileEntry(<<"a">>, "a1")>>),
            ListOf(<<FileEntry(<<"n">>, "n2")>>), ListOf(<<"c1">>), FALSE)
\* Commands only.
ChgCommands == Changes("plan", Absent, ListOf(<< >>), ListOf(<<"c1">>), FALSE)
\* A decodable response that proposes nothing: an empty list, an absent
\* key and a null.
ChgNothing == Changes("plan", ListOf(<< >>), Absent, NotAList, FALSE)
\* A file entry without "path".
ChgNoPath == Changes("plan", ListOf(<<NoPathEntry("n1")>>), Absent, Absent, FALSE)
\* "files_to_create": null next to a command.
ChgNull == Changes("plan", NotAList, Absent, ListOf(<<"c1">>), FALSE)

ProposedChanges == {ChgFix, ChgCommands, ChgNothing, ChgNoPath, ChgNull}

\* Line 181: the dictionary returned when the response does not parse.
ParseFailure == Changes("Failed to parse AI response.", Absent, Absent, Absent, TRUE)
\* No proposal has been made yet in the current pass.
NoChanges == Changes("", Absent, Absent, Absent, FALSE)

\* One llm.invoke (line 169): it raises, or returns a text in which the
\* pattern of line 174 (first brace to last brace) matches nothing, a text
\* that json.loads rejects, or a text that decodes to a dictionary.
RaisingReply == [raises |-> TRUE, kind |-> "none", changes |-> NoChanges]
Reply(kind, c) == [raises |-> FALSE, kind |-> kind, changes |-> c]
UpdaterReplies ==
    { RaisingReply, Reply("none", NoChanges), Reply("invalid", NoChanges) }
    \cup { Reply("valid", c) : c \in ProposedChanges }

\* Lines 172-181 on a returned text.
ParseChanges(reply) == IF reply.kind = "valid" THEN reply.changes ELSE ParseFailure

\* Lines 227-231: the history entry of an iteration.
UpdateEntry(number, c) ==
    [iteration |-> number, plan |-> c.plan,
     changes |-> [files_to_create |-> c.files_to_create,
                  files_to_update |-> c.files_to_update,
                  commands_to_run |-> c.commands_to_run,
                  raw_response |-> c.raw_response]]

\* Truth value of changes.get(key): None (absent or null) and [] are false.
Truthy(field) == field.kind = "list" /\ Len(field.items) > 0

\* The condition of line 233.
ProposesNothing(c) ==
    /\ ~Truthy(c.files_to_create)
    /\ ~Truthy(c.files_to_update)
    /\ ~Truthy(c.commands_to_run)

\* What a command run by the updater does: it exits with a code, or
\* subprocess.run raises (a timeout included).
UpdaterOutcomes == { [kind |-> "exit", code |-> 0], [kind |-> "exit", code |-> 1],
                     [kind |-> "exception", code |-> 0] }

\* AutonomousUpdaterAgent.execute_command (lines 47-66).
updater_execute_command(command, cwd, o) ==
    IF o.kind = "exit"
    THEN [command |-> command, stdout |-> "stdout", stderr |-> "stderr",
          return_code |-> o.code, success |-> (o.code = 0), cwd |-> cwd]
    ELSE [command |-> command, stdout |-> "", stderr |-> "str(e)",
          return_code |-> 1, success |-> FALSE, cwd |-> cwd]

NoVerification ==
    [command |-> "", stdout |-> "", stderr |-> "", return_code |-> 0,
     success |-> FALSE, cwd |-> << >>]

\* test_error: None (line 216), or the text of line 249.
NoTestError == [set |-> FALSE, stderr |-> "", stdout |-> ""]
TestError(r) == [set |-> TRUE, stderr |-> r.stderr, stdout |-> r.stdout]

\* The loop of lines 195-198.
UpdaterCommandLoop(commands, project_path, cmd_fails) ==
    [k \in 1..Len(commands) |->
        updater_execute_command(commands[k], project_path,
                                IF k \in cmd_fails THEN [kind |-> "exit", code |-> 1]
                                ELSE [kind |-> "exit", code |-> 0])]

\* apply_changes (lines 183-199): the writes and commands it made, whether
\* an exception left it, and the value it returns otherwise.
apply_changes(c, project_path, write_fails, cmd_fails) ==
    IF c.files_to_create.kind = "not_list"
    THEN Applied(TRUE, << >>, << >>)
    ELSE
    LET creates == Get(c.files_to_create)
        made == WriteLoop(creates, 1, project_path, 0, write_fails)
    IN  IF made.raised \/ c.files_to_update.kind = "not_list"
        THEN Applied(TRUE, made.writes, << >>)
        ELSE
        LET u == WriteLoop(Get(c.files_to_update), 1, project_path,
                           Len(creates), write_fails)
        IN  IF u.raised \/ c.commands_to_run.kind = "not_list"
            THEN Applied(TRUE, made.writes \o u.writes, << >>)
            ELSE Applied(FALSE, made.writes \o u.writes,
                         UpdaterCommandLoop(Get(c.commands_to_run), project_path,
                                            cmd_fails))

\* One step of run_update that the claims about it speak of.
UpdateEvent(op, number, ok) == [op |-> op, iteration |-> number, ok |-> ok]

(***************************************************************************)
(* State.                                                                  *)
(***************************************************************************)
VARIABLES
    caller,          \* "direct" or "comprehensive": the entry point used
    calls,           \* direct calls of debug_until_working made so far
    step,            \* position in ComprehensiveSteps
    results,         \* the results dictionary of run_comprehensive_debug
    deps,            \* the locals backend_deps and frontend_deps
    cleanup_i,       \* commands of _cleanup_ports already run
    pc,              \* position of the controller
    target_command,  \* arguments of the current debug_until_working call
    project_path,
    iteration,       \* the loop variable of line 338 (0-based)
    result,          \* the local "result" of debug_until_working
    context,         \* the blocks the Context Extractor added
    attempt,         \* the loop variable of line 248
    solution,        \* the local "solution" of debug_until_working
    applied,         \* what the last apply_solution did
    debug_history,   \* self.debug_history
    ret,             \* value returned by the last debug_until_working
    running,         \* commands in progress (spawned, not yet returned)
    outcome,         \* what the last finished target run did
    oracle_history,  \* the history serialized into the oracle's messages
    oracle_calls,    \* llm.invoke calls of the current diagnosis
    started,         \* target commands of the sessions started so far
    runs,            \* target runs started in the current session
    diagnoses,       \* diagnoses completed in the current session
    applies,         \* apply_solution calls of the current session
    appended,        \* history entries appended by the current session
    fails,           \* failing target runs so far
    anomalies,       \* runner faults and degraded diagnoses so far
    since_diagnosis, \* commands executed in the session since its last diagnosis
    slept,           \* time.sleep(1) of line 418 ran since the last target run
    ports_clean,     \* _cleanup_ports ran and no startup probe was run since
    response_text,   \* what the last llm.invoke of the current diagnosis returned
    update_calls,    \* run_update calls made so far on the updater agent
    upc,             \* position of the controller in run_update
    update_iteration,    \* the loop variable i of run_update (line 217)
    changes,         \* the local "changes" of run_update
    update_applied,  \* what the last apply_changes did
    verification_result, \* the local "verification_result" of run_update
    test_error,      \* the local "test_error" of run_update
    update_history,  \* self.update_history
    update_ret,      \* value returned by the last run_update
    update_trace,    \* oracle calls, apply_changes calls and verification
                     \* runs of the current run_update, in their order
    verification_failures    \* failing verification runs so far

vars == <<caller, calls, step, results, deps, cleanup_i, pc, target_command,
          project_path, iteration, result, context, attempt, solution, applied,
          debug_history, ret, running, outcome, oracle_history, oracle_calls,
          started, runs, diagnoses, applies, appended, fails, anomalies,
          since_diagnosis, slept, ports_clean, response_text,
          update_calls, upc, update_iteration, changes, update_applied,
          verification_result, test_error, update_history, update_ret,
          update_trace, verification_failures>>

debuggerVars == <<caller, calls, step, results, deps, cleanup_i, pc,
                  target_command, project_path, iteration, result, context,
                  attempt, solution, applied, debug_history, ret, running,
                  outcome, oracle_history, oracle_calls, started, runs,
                  diagnoses, applies, appended, fails, anomalies,
                  since_diagnosis, slept, ports_clean, response_text>>
updaterVars == <<update_calls, upc, update_iteration, changes, update_applied,
                 verification_result, test_error, update_history, update_ret,
                 update_trace, verification_failures>>

\* The updater agent after __init__ (autonomous_updater.py lines 18-26),
\* before any run_update call.
UpdaterInit ==
    /\ update_calls = 0
    /\ upc = "idle"
    /\ update_iteration = 0
    /\ changes = NoChanges
    /\ update_applied = NotApplied
    /\ verification_result = NoVerification
    /\ test_error = NoTestError
    /\ update_history = <<>>
    /\ update_ret = "none"
    /\ update_trace = <<>>
    /\ verification_failures = 0

callerVars == <<caller, calls, step, results, deps, cleanup_i>>
budgetVars == <<fails, anomalies>>
ghostVars == <<since_diagnosis, slept, ports_clean>>

NoOutcome == [kind |-> "none", code |-> 0, stdout |-> NoMention, stderr |-> ""]

Init ==
    /\ caller \in {"direct", "comprehensive"}
    /\ calls = 0
    /\ step = 1
    /\ results = [k \in ResultKeys |-> FALSE]
    /\ deps = [backend_deps |-> FALSE, frontend_deps |-> FALSE]
    /\ cleanup_i = 0
    /\ pc = IF caller = "direct" THEN "idle" ELSE "comprehensive"
    /\ target_command = ""
    /\ project_path = <<>>
    /\ iteration = 0
    /\ result = NoResult
    /\ context = {}
    /\ attempt = 0
    /\ solution = NoSolution
    /\ applied = NotApplied
    /\ debug_history = <<>>
    /\ ret = "none"
    /\ running = <<>>
    /\ outcome = NoOutcome
    /\ oracle_history = <<>>
    /\ oracle_calls = 0
    /\ started = <<>>
    /\ runs = 0
    /\ diagnoses = 0
    /\ applies = 0
    /\ appended = 0
    /\ fails = 0
    /\ anomalies = 0
    /\ since_diagnosis = <<>>
    /\ slept = FALSE
    /\ ports_clean = FALSE
    /\ response_text = NoCall
    /\ UpdaterInit

(***************************************************************************)
(* debug_until_working.                                                    *)
(***************************************************************************)
\* Entry of debug_until_working(command, path): lines 326-336.
EnterSession(command, path) ==
    /\ target_command' = command
    /\ project_path' = path
    /\ iteration' = 0
    /\ result' = NoResult
    /\ context' = {}
    /\ attempt' = 0
    /\ solution' = NoSolution
    /\ applied' = NotApplied
    /\ ret' = "none"
    /\ outcome' = NoOutcome
    /\ oracle_history' = <<>>
    /\ oracle_calls' = 0
    /\ started' = Append(started, command)
    /\ runs' = 0
    /\ diagnoses' = 0
    /\ applies' = 0
    /\ appended' = 0
    /\ pc' = "loop"
    /\ since_diagnosis' = <<>>
    /\ slept' = FALSE
    /\ UNCHANGED <<debug_history, running, budgetVars, response_text, ports_clean>>

\* The caller calls debug_until_working on the agent.
CallDebug ==
    /\ caller = "direct"
    /\ pc = "idle"
    /\ calls < MaxCalls
    /\ calls' = calls + 1
    /\ EnterSession(DirectCommand(calls + 1), ProjectRoot)
    /\ UNCHANGED <<caller, step, results, deps, cleanup_i>>
    /\ UNCHANGED updaterVars

\* A loop with one more pass, which re-runs the target command after the
\* last budgeted remediation.
LoopContinues_OneMore(i) == i <= max_iterations

\* for iteration in range(self.max_iterations) (line 338)
LoopContinues(i) == i < max_iterations

\* Line 343: the target command is spawned.
RunTarget ==
    /\ pc = "loop"
    /\ LoopContinues(iteration)
    /\ running' = Append(running, target_command)
    /\ runs' = runs + 1
    /\ pc' = "target_running"
    /\ UNCHANGED <<callerVars, target_command, project_path, iteration, result,
                   context, attempt, solution, applied, debug_history, ret,
                   outcome, oracle_history, oracle_calls, started, diagnoses,
                   applies, appended, budgetVars, response_text,
                   since_diagnosis>>
    /\ slept' = FALSE
    /\ ports_clean' = (ports_clean /\ ~IsStartupProbe(target_command))
    /\ UNCHANGED updaterVars

\* The failing target runs the environment may still produce.
FailureBudget == IF caller = "direct" THEN MaxFailures ELSE MaxChecklistFailures

\* A loop that diagnoses after a successful run too.
AfterRun_IgnoresSuccess(success) == "extract"

\* Lines 346-349: what follows a run of the target command.
AfterRun(success) == IF success THEN "returned" ELSE "extract"

\* A loop that diagnoses the result it held before the run.
TargetDone_StaleResult ==
    /\ pc = "target_running"
    /\ \E o \in ProcessOutcomes :
        LET r == execute_command(target_command, project_path, o)
        IN  /\ ~r.success => fails < FailureBudget
            /\ o.kind # "exit" => anomalies < MaxAnomalies
            /\ result' = result
            /\ outcome' = o
            /\ fails' = IF r.success THEN fails ELSE fails + 1
            /\ anomalies' = IF o.kind # "exit" THEN anomalies + 1 ELSE anomalies
            /\ pc' = AfterRun(r.success)
            /\ ret' = IF AfterRun(r.success) = "returned" THEN "True" ELSE ret
    /\ running' = SubSeq(running, 1, Len(running) - 1)
    /\ UNCHANGED <<callerVars, target_command, project_path, iteration, context,
                   attempt, solution, applied, debug_history, oracle_history,
                   oracle_calls, started, runs, diagnoses, applies, appended>>
    /\ since_diagnosis' = Append(since_diagnosis, target_command)
    /\ UNCHANGED <<slept, ports_clean, response_text>>
    /\ UNCHANGED updaterVars

\* Lines 343-349: the target command finishes; success returns True.
TargetDone ==
    /\ pc = "target_running"
    /\ \E o \in ProcessOutcomes :
        LET r == execute_command(target_command, project_path, o)
        IN  /\ ~r.success => fails < FailureBudget
            /\ o.kind # "exit" => anomalies < MaxAnomalies
            /\ result' = r
            /\ outcome' = o
            /\ fails' = IF r.success THEN fails ELSE fails + 1
            /\ anomalies' = IF o.kind # "exit" THEN anomalies + 1 ELSE anomalies
            /\ pc' = AfterRun(r.success)
            /\ ret' = IF AfterRun(r.success) = "returned" THEN "True" ELSE ret
    /\ running' = SubSeq(running, 1, Len(running) - 1)
    /\ UNCHANGED <<callerVars, target_command, project_path, iteration, context,
                   attempt, solution, applied, debug_history, oracle_history,
                   oracle_calls, started, runs, diagnoses, applies, appended>>
    /\ since_diagnosis' = Append(since_diagnosis, target_command)
    /\ UNCHANGED <<slept, ports_clean, response_text>>
    /\ UNCHANGED updaterVars

\* Lines 421-427: the loop is exhausted.
Exhausted ==
    /\ pc = "loop"
    /\ ~LoopContinues(iteration)
    /\ ret' = "False"
    /\ pc' = "returned"
    /\ UNCHANGED <<callerVars, target_command, project_path, iteration, result,
                   context, attempt, solution, applied, debug_history, running,
                   outcome, oracle_history, oracle_calls, started, runs,
                   diagnoses, applies, appended, budgetVars, response_text,
                   since_diagnosis, ports_clean>>
    /\ slept' = FALSE
    /\ UNCHANGED updaterVars

\* A context gathering that reads the mentioned paths in the first
\* iteration only.
GatherContext_FirstIterationOnly ==
    /\ pc = "extract"
    /\ context' = IF iteration = 0
                  THEN ExtractContext(result.stdout, target_command, project_path)
                  ELSE {}
    /\ pc' = "analyze"
    /\ attempt' = 0
    /\ oracle_calls' = 0
    /\ UNCHANGED <<callerVars, target_command, project_path, iteration, result,
                   solution, applied, debug_history, ret, running, outcome,
                   oracle_history, started, runs, diagnoses, applies, appended,
                   budgetVars, response_text,
                   ghostVars>>
    /\ UNCHANGED updaterVars

\* Lines 354-400: context gathering from stderr + stdout.  The variable
\* context holds the file and directory blocks (lines 382-400); the
\* sentence of line 355 that precedes them names the iteration and the
\* target command.
GatherContext ==
    /\ pc = "extract"
    /\ context' = ExtractContext(result.stdout, target_command, project_path)
    /\ pc' = "analyze"
    /\ attempt' = 0
    /\ oracle_calls' = 0
    /\ UNCHANGED <<callerVars, target_command, project_path, iteration, result,
                   solution, applied, debug_history, ret, running, outcome,
                   oracle_history, started, runs, diagnoses, applies, appended,
                   budgetVars, response_text,
                   ghostVars>>
    /\ UNCHANGED updaterVars

\* Lines 248-295: one llm.invoke of analyze_and_fix_issue and its handling.
\* The messages (with the trailing history) are built before the loop.
OracleCall ==
    /\ pc = "analyze"
    /\ \E reply \in {RaisingCall} \cup ResponseTexts :
        LET a == AttemptOutcome(attempt, Parse(reply))
            degraded == a.returns /\ a.solution \in {ManualSolution, ErrorSolution}
        IN  /\ degraded => anomalies < MaxAnomalies
            /\ anomalies' = IF degraded THEN anomalies + 1 ELSE anomalies
            /\ fails' = fails
            /\ solution' = a.solution
            /\ response_text' = reply
            /\ pc' = IF a.returns THEN "append" ELSE "analyze"
            /\ attempt' = IF a.returns THEN attempt ELSE attempt + 1
            /\ diagnoses' = IF a.returns THEN diagnoses + 1 ELSE diagnoses
    /\ oracle_history' = debug_history_short(debug_history)
    /\ oracle_calls' = oracle_calls + 1
    /\ UNCHANGED <<callerVars, target_command, project_path, iteration, result,
                   context, applied, debug_history, ret, running, outcome,
                   started, runs, applies, appended>>
    /\ UNCHANGED ghostVars
    /\ UNCHANGED updaterVars

\* An entry numbered with the 0-based loop variable.
HistoryEntry_ZeroBased(i, command, error, sol) ==
    [iteration |-> i, command |-> command, error |-> error, solution |-> sol]

\* The entry of lines 405-410.
HistoryEntry(i, command, error, sol) ==
    [iteration |-> i + 1, command |-> command, error |-> error, solution |-> sol]

\* A loop that records no entry for a fallback remediation.
AppendHistory_SkipsDegraded ==
    /\ pc = "append"
    /\ debug_history' =
           IF solution.solution_type \in {"MANUAL_ANALYSIS", "ERROR"}
           THEN debug_history
           ELSE Append(debug_history,
                       HistoryEntry(iteration, target_command, result.stderr,
                                    solution))
    /\ appended' = appended + 1
    /\ pc' = "apply"
    /\ result' = NoResult
    /\ outcome' = NoOutcome
    /\ context' = {}
    /\ UNCHANGED <<callerVars, target_command, project_path, iteration,
                   attempt, solution, applied, ret, running,
                   oracle_history, oracle_calls, started, runs, diagnoses,
                   applies, budgetVars,
                   ghostVars>>
    /\ response_text' = NoCall
    /\ UNCHANGED updaterVars

\* Lines 404-410.  The locals result and context are dead afterwards.
AppendHistory ==
    /\ pc = "append"
    /\ debug_history' = Append(debug_history,
                               HistoryEntry(iteration, target_command,
                                            result.stderr, solution))
    /\ appended' = appended + 1
    /\ pc' = "apply"
    /\ result' = NoResult
    /\ outcome' = NoOutcome
    /\ context' = {}
    /\ UNCHANGED <<callerVars, target_command, project_path, iteration,
                   attempt, solution, applied, ret, running,
                   oracle_history, oracle_calls, started, runs, diagnoses,
                   applies, budgetVars,
                   slept, ports_clean>>
    /\ since_diagnosis' = <<>>
    /\ response_text' = NoCall
    /\ UNCHANGED updaterVars

\* Line 413: apply_solution runs (or raises).
Apply ==
    /\ pc = "apply"
    /\ \E write_fails \in SUBSET (1..NumWrites(solution)),
          cmd_fails \in SUBSET (1..NumCommands(solution)) :
        LET a == apply_solution(solution, project_path, write_fails, cmd_fails)
        IN  /\ applied' = a
            /\ pc' = IF a.raised THEN "raised" ELSE "applied"
            /\ since_diagnosis' = since_diagnosis \o
                   [i \in 1..Len(a.commands) |-> a.commands[i].command]
    /\ applies' = applies + 1
    /\ UNCHANGED <<callerVars, target_command, project_path, iteration, result,
                   context, attempt, solution, debug_history, ret, running,
                   outcome, oracle_history, oracle_calls, started, runs,
                   diagnoses, appended, budgetVars, response_text,
                   slept, ports_clean>>
    /\ UNCHANGED updaterVars

\* End of one pass of the loop body: the locals of the pass are dead.
NextIteration ==
    /\ iteration' = iteration + 1
    /\ pc' = "loop"
    /\ result' = NoResult
    /\ context' = {}
    /\ solution' = NoSolution
    /\ applied' = NotApplied
    /\ oracle_history' = <<>>
    /\ oracle_calls' = 0
    /\ attempt' = 0
    /\ outcome' = NoOutcome
    /\ UNCHANGED <<callerVars, target_command, project_path, debug_history, ret,
                   running, started, runs, diagnoses, applies, appended,
                   budgetVars, response_text,
                   since_diagnosis, ports_clean>>

\* A loop that gives up when apply_solution returns False.
ApplyFailed_Fatal ==
    /\ pc = "applied"
    /\ ~applied.success
    /\ ret' = "False"
    /\ pc' = "returned"
    /\ UNCHANGED <<callerVars, target_command, project_path, iteration, result,
                   context, attempt, solution, applied, debug_history,
                   running, outcome, oracle_history, oracle_calls, started,
                   runs, diagnoses, applies, appended, budgetVars, response_text,
                   ghostVars>>
    /\ UNCHANGED updaterVars

\* Lines 413-415: apply_solution returned False; continue.
ApplyFailed ==
    /\ pc = "applied"
    /\ ~applied.success
    /\ NextIteration
    /\ slept' = FALSE
    /\ UNCHANGED updaterVars

\* Lines 417-419: time.sleep(1), then the next pass.
Sleep ==
    /\ pc = "applied"
    /\ applied.success
    /\ NextIteration
    /\ slept' = TRUE
    /\ UNCHANGED updaterVars

\* The direct caller gets the return value back.
ReturnToCaller ==
    /\ caller = "direct"
    /\ pc = "returned"
    /\ pc' = "idle"
    /\ UNCHANGED <<callerVars, target_command, project_path, iteration, result,
                   context, attempt, solution, applied, debug_history, ret,
                   running, outcome, oracle_history, oracle_calls, started,
                   runs, diagnoses, applies, appended, budgetVars, response_text,
                   ghostVars>>
    /\ UNCHANGED updaterVars

(***************************************************************************)
(* run_comprehensive_debug and _cleanup_ports.                             *)
(***************************************************************************)
sessionVars == <<target_command, project_path, iteration, result, context,
                 attempt, solution, applied, debug_history, ret, outcome,
                 oracle_history, oracle_calls, started, runs, diagnoses,
                 applies, appended>>

AtStep(kind) ==
    /\ caller = "comprehensive"
    /\ pc = "comprehensive"
    /\ step <= Len(ComprehensiveSteps)
    /\ ComprehensiveSteps[step].kind = kind

\* Lines 468, 469, 476, 482, 488, 506, 520, 527: the next session is called.
StartChecklistSession ==
    /\ AtStep("session")
    /\ EnterSession(ComprehensiveSteps[step].command, ComprehensiveSteps[step].path)
    /\ UNCHANGED callerVars
    /\ UNCHANGED updaterVars

\* What the statement following a session does with its return value
\* (lines 468-471, 476-477, 482-483, 488-489, 506-508, 520-522, 527-528).
StoreDeps(d, key, value) ==
    IF key \in {"backend_deps", "frontend_deps"} THEN [d EXCEPT ![key] = value] ELSE d

\* A results dictionary whose 'dependencies' item needs only one of the two
\* dependency sessions.
StoreResult_EitherDep(res, d, key, value) ==
    IF key = "backend_deps" THEN res
    ELSE IF key = "frontend_deps"
    THEN IF d.backend_deps \/ value THEN [res EXCEPT !["dependencies"] = TRUE] ELSE res
    ELSE IF value THEN [res EXCEPT ![key] = TRUE] ELSE res

StoreResult(res, d, key, value) ==
    IF key = "backend_deps" THEN res
    ELSE IF key = "frontend_deps"
    THEN IF d.backend_deps /\ value THEN [res EXCEPT !["dependencies"] = TRUE] ELSE res
    ELSE IF value THEN [res EXCEPT ![key] = TRUE] ELSE res

SessionReturned ==
    /\ caller = "comprehensive"
    /\ pc = "returned"
    /\ LET key == ComprehensiveSteps[step].key
           value == (ret = "True")
       IN  /\ deps' = StoreDeps(deps, key, value)
           /\ results' = StoreResult(results, deps, key, value)
    /\ step' = step + 1
    /\ pc' = "comprehensive"
    /\ UNCHANGED <<caller, calls, cleanup_i, sessionVars, running, budgetVars, response_text,
                   ghostVars>>
    /\ UNCHANGED updaterVars

\* Line 441: one cleanup command is spawned.
CleanupBegin ==
    /\ AtStep("cleanup")
    /\ cleanup_i < Len(CleanupCommands)
    /\ running' = Append(running, CleanupCommands[cleanup_i + 1])
    /\ pc' = "cleanup_running"
    /\ UNCHANGED <<callerVars, sessionVars, budgetVars, response_text,
                   ghostVars>>
    /\ UNCHANGED updaterVars

\* Line 441: it finishes; its result is discarded.
CleanupEnd ==
    /\ pc = "cleanup_running"
    /\ running' = SubSeq(running, 1, Len(running) - 1)
    /\ cleanup_i' = cleanup_i + 1
    /\ pc' = "comprehensive"
    /\ UNCHANGED <<caller, calls, step, results, deps, sessionVars, budgetVars, response_text,
                   ghostVars>>
    /\ UNCHANGED updaterVars

\* Line 442: time.sleep(1) ends _cleanup_ports.
CleanupSleep ==
    /\ AtStep("cleanup")
    /\ cleanup_i = Len(CleanupCommands)
    /\ step' = step + 1
    /\ UNCHANGED <<caller, calls, results, deps, cleanup_i, pc, sessionVars,
                   running, budgetVars, response_text,
                   since_diagnosis, slept>>
    /\ ports_clean' = TRUE
    /\ UNCHANGED updaterVars

\* Line 539: return results.
ReturnResults ==
    /\ caller = "comprehensive"
    /\ pc = "comprehensive"
    /\ step > Len(ComprehensiveSteps)
    /\ pc' = "done"
    /\ UNCHANGED <<callerVars, sessionVars, running, budgetVars, response_text,
                   ghostVars>>
    /\ UNCHANGED updaterVars

Next ==
    \/ CallDebug
    \/ RunTarget
    \/ TargetDone
    \/ Exhausted
    \/ GatherContext
    \/ OracleCall
    \/ AppendHistory
    \/ Apply
    \/ ApplyFailed
    \/ Sleep
    \/ ReturnToCaller
    \/ StartChecklistSession
    \/ SessionReturned
    \/ CleanupBegin
    \/ CleanupEnd
    \/ CleanupSleep
    \/ ReturnResults

Spec == Init /\ [][Next]_vars

(***************************************************************************)
(* apply_solution and read_file on the same path.  A remediation that      *)
(* creates one file is applied under a project root, and the path the      *)
(* write resolved is then handed to read_file under the same root.         *)
(***************************************************************************)
\* The paths a remediation may name: relative ones inside the root, an
\* absolute one inside it, and absolute and dot-dot ones that leave it.
WritePaths == { <<"a">>,
                <<"b", "/", "a">>,
                <<"b", "/", ".", ".", "/", "a">>,
                <<"/", "p", "/", "a">>,
                <<"/", "p", "/", "b", "/", "a">>,
                <<".", ".", "/", "p", "/", "a">>,
                <<".", ".", "/", "a">>,
                <<"/", "e", "/", "s">>,
                <<".", ".", "/", "e", "/", "s">>,
                <<"/", "p", "q", "/", "s">>,
                <<".", ".", "/", "p", "q", "/", "s">> }

WriteRoots == { ProjectRoot,
                PathJoin(ProjectRoot, BackendDir),
                PathJoin(ProjectRoot, FrontendDir) }

SolWrite(path) ==
    Remediation("FILE_CREATE", ListOf(<<FileEntry(path, "a1")>>), Absent, Absent)

InitWrite ==
    /\ caller = "direct"
    /\ calls = 1
    /\ step = 1
    /\ results = [k \in ResultKeys |-> FALSE]
    /\ deps = [backend_deps |-> FALSE, frontend_deps |-> FALSE]
    /\ cleanup_i = 0
    /\ pc = "apply"
    /\ target_command = DirectCommand(1)
    /\ project_path \in WriteRoots
    /\ iteration = 0
    /\ result = NoResult
    /\ context = {}
    /\ attempt = 0
    /\ solution \in {SolWrite(path) : path \in WritePaths}
    /\ applied = NotApplied
    /\ debug_history = <<>>
    /\ ret = "none"
    /\ running = <<>>
    /\ outcome = NoOutcome
    /\ oracle_history = <<>>
    /\ oracle_calls = 0
    /\ started = <<>>
    /\ runs = 0
    /\ diagnoses = 0
    /\ applies = 0
    /\ appended = 0
    /\ fails = 0
    /\ anomalies = 0
    /\ since_diagnosis = <<>>
    /\ slept = FALSE
    /\ ports_clean = FALSE
    /\ response_text = NoCall
    /\ UpdaterInit

\* read_file(os.path.join(project_path, path), project_path) for the path
\* of every write apply_solution made.
ReadWritten ==
    /\ pc = "applied"
    /\ context' = { [name |-> applied.writes[i].path, kind |-> "file",
                     out |-> read_file(applied.writes[i].path, project_path)] :
                        i \in 1..Len(applied.writes) }
    /\ pc' = "read"
    /\ UNCHANGED <<callerVars, target_command, project_path, iteration, result,
                   attempt, solution, applied, debug_history, ret, running,
                   outcome, oracle_history, oracle_calls, started, runs,
                   diagnoses, applies, appended, budgetVars, response_text,
                   ghostVars>>
    /\ UNCHANGED updaterVars

NextWrite ==
    \/ Apply
    \/ ReadWritten

SpecWrite == InitWrite /\ [][NextWrite]_vars

(***************************************************************************)
(* AutonomousUpdaterAgent.run_update.                                      *)
(***************************************************************************)
\* Lines 201-216: run_update is called; the requirements file is read, or
\* it is missing and run_update returns False.
CallUpdate ==
    /\ upc = "idle"
    /\ update_calls < MaxUpdateCalls
    /\ update_calls' = update_calls + 1
    /\ \E found \in BOOLEAN :
        /\ upc' = IF found THEN "loop" ELSE "returned"
        /\ update_ret' = IF found THEN "none" ELSE "False"
    /\ update_iteration' = 0
    /\ test_error' = NoTestError
    /\ changes' = NoChanges
    /\ update_applied' = NotApplied
    /\ verification_result' = NoVerification
    /\ update_trace' = << >>
    /\ UNCHANGED <<update_history, verification_failures>>
    /\ UNCHANGED debuggerVars

\* for i in range(self.max_iterations) (line 217)
UpdateLoopContinues(n) == n < update_max_iterations

\* Lines 223-231: the oracle is asked for a change set and the history
\* entry of the iteration is appended; an exception of llm.invoke leaves
\* run_update.
Propose ==
    /\ upc = "loop"
    /\ UpdateLoopContinues(update_iteration)
    /\ \E reply \in UpdaterReplies :
        IF reply.raises
        THEN /\ upc' = "raised"
             /\ update_trace' = Append(update_trace,
                                       UpdateEvent("propose", update_iteration + 1, FALSE))
             /\ UNCHANGED <<changes, update_history>>
        ELSE /\ changes' = ParseChanges(reply)
             /\ update_history' = Append(update_history,
                                         UpdateEntry(update_iteration + 1,
                                                     ParseChanges(reply)))
             /\ update_trace' = Append(update_trace,
                                       UpdateEvent("propose", update_iteration + 1, TRUE))
             /\ upc' = "proposed"
    /\ UNCHANGED <<update_calls, update_iteration, update_applied,
                   verification_result, test_error, update_ret,
                   verification_failures>>
    /\ UNCHANGED debuggerVars

\* A loop that goes on to the next iteration when nothing is proposed.
NothingProposed_Continues ==
    /\ upc = "proposed"
    /\ ProposesNothing(changes)
    /\ update_iteration' = update_iteration + 1
    /\ upc' = "loop"
    /\ UNCHANGED <<update_calls, changes, update_applied, verification_result,
                   test_error, update_history, update_ret, update_trace,
                   verification_failures>>
    /\ UNCHANGED debuggerVars

\* Lines 233-235 and 252-253: nothing is proposed; break, return False.
NothingProposed ==
    /\ upc = "proposed"
    /\ ProposesNothing(changes)
    /\ update_ret' = "False"
    /\ upc' = "returned"
    /\ UNCHANGED <<update_calls, update_iteration, changes, update_applied,
                   verification_result, test_error, update_history,
                   update_trace, verification_failures>>
    /\ UNCHANGED debuggerVars

\* Line 237: apply_changes is called.
ApplyChanges ==
    /\ upc = "proposed"
    /\ ~ProposesNothing(changes)
    /\ \E write_fails \in SUBSET (1..NumWrites(changes)),
          cmd_fails \in SUBSET (1..NumCommands(changes)) :
        LET a == apply_changes(changes, ProjectRoot, write_fails, cmd_fails)
        IN  /\ update_applied' = a
            /\ upc' = IF a.raised THEN "raised" ELSE "applied"
            /\ update_trace' = Append(update_trace,
                                      UpdateEvent("apply", update_iteration + 1,
                                                  ~a.raised /\ a.success))
    /\ UNCHANGED <<update_calls, update_iteration, changes, verification_result,
                   test_error, update_history, update_ret, verification_failures>>
    /\ UNCHANGED debuggerVars

\* A test that takes every returned value for success.
ChangesApplied_Always(a) == TRUE

\* The test of line 237 on the value apply_changes returned.
ChangesApplied(a) == a.success

\* Lines 237-239: apply_changes returned False; return False.
ApplyAborted ==
    /\ upc = "applied"
    /\ ~ChangesApplied(update_applied)
    /\ update_ret' = "False"
    /\ upc' = "returned"
    /\ UNCHANGED <<update_calls, update_iteration, changes, update_applied,
                   verification_result, test_error, update_history,
                   update_trace, verification_failures>>
    /\ UNCHANGED debuggerVars

\* Line 242: the verification command is run.
Verify ==
    /\ upc = "applied"
    /\ ChangesApplied(update_applied)
    /\ \E o \in UpdaterOutcomes :
        LET r == updater_execute_command("make test", ProjectRoot, o)
        IN  /\ ~r.success => verification_failures < MaxVerificationFailures
            /\ verification_result' = r
            /\ verification_failures' =
                   IF r.success THEN verification_failures
                   ELSE verification_failures + 1
            /\ update_trace' = Append(update_trace,
                                      UpdateEvent("verify", update_iteration + 1,
                                                  r.success))
    /\ upc' = "verified"
    /\ UNCHANGED <<update_calls, update_iteration, changes, update_applied,
                   test_error, update_history, update_ret>>
    /\ UNCHANGED debuggerVars

\* Lines 244-246: the verification succeeded; return True.
VerificationPassed ==
    /\ upc = "verified"
    /\ verification_result.success
    /\ update_ret' = "True"
    /\ upc' = "returned"
    /\ UNCHANGED <<update_calls, update_iteration, changes, update_applied,
                   verification_result, test_error, update_history,
                   update_trace, verification_failures>>
    /\ UNCHANGED debuggerVars

\* Lines 247-250: the verification failed; test_error is set and the next
\* pass begins, the locals of this pass being dead.
VerificationFailed ==
    /\ upc = "verified"
    /\ ~verification_result.success
    /\ test_error' = TestError(verification_result)
    /\ update_iteration' = update_iteration + 1
    /\ changes' = NoChanges
    /\ update_applied' = NotApplied
    /\ verification_result' = NoVerification
    /\ upc' = "loop"
    /\ UNCHANGED <<update_calls, update_history, update_ret, update_trace,
                   verification_failures>>
    /\ UNCHANGED debuggerVars

\* Lines 252-253: the loop is exhausted; return False.
UpdateExhausted ==
    /\ upc = "loop"
    /\ ~UpdateLoopContinues(update_iteration)
    /\ update_ret' = "False"
    /\ upc' = "returned"
    /\ UNCHANGED <<update_calls, update_iteration, changes, update_applied,
                   verification_result, test_error, update_history,
                   update_trace, verification_failures>>
    /\ UNCHANGED debuggerVars

\* run_update has returned to its caller.
UpdateReturned ==
    /\ upc = "returned"
    /\ upc' = "idle"
    /\ UNCHANGED <<update_calls, update_iteration, changes, update_applied,
                   verification_result, test_error, update_history, update_ret,
                   update_trace, verification_failures>>
    /\ UNCHANGED debuggerVars

InitUpdate ==
    /\ Init
    /\ caller = "direct"

NextUpdate ==
    \/ CallUpdate
    \/ Propose
    \/ NothingProposed
    \/ ApplyChanges
    \/ ApplyAborted
    \/ Verify
    \/ VerificationPassed
    \/ VerificationFailed
    \/ UpdateExhausted
    \/ UpdateReturned

SpecUpdate == InitUpdate /\ [][NextUpdate]_vars

(***************************************************************************)
(* Properties.                                                             *)
(***************************************************************************)
InSession ==
    pc \in {"loop", "target_running", "extract", "analyze", "append", "apply",
            "applied"}

\* The session that just ended returned this value.
Returned(value) == pc = "returned" /\ ret = value

C2_ExhaustedHistory ==
    Returned("False") =>
        /\ Len(debug_history) = max_iterations
        /\ debug_history[1].iteration = 1
        /\ \A k \in 1..(Len(debug_history) - 1) :
               debug_history[k].iteration < debug_history[k + 1].iteration

\* C3: a session ends in one of two outcomes: it returns True iff some run
\* of the target succeeded, and it returns False iff the target was run
\* exactly max_iterations times and every run failed.
C3_TwoOutcomes ==
    pc \in {"returned", "raised"} =>
        /\ ret = "True" <=> result.success
        /\ ret = "False" <=> (runs = max_iterations /\ ~result.success)

\* C4: the iteration field of the history entry at position k is k.
C4_IterationIsPosition ==
    \A k \in 1..Len(debug_history) : debug_history[k].iteration = k

\* A resolved path is the project root or lies inside it: the components
\* of the root are a prefix of the components of the path.
IsWithin(path, root) ==
    LET a == AbsComps(path)
        r == AbsComps(root)
    IN  Len(a) >= Len(r) /\ SubSeq(a, 1, Len(r)) = r

\* C5: read_file and list_files return content or a listing only for a
\* path that resolves to the project root or inside it, and the
\* access-restricted marker for every path that resolves outside it.
C5_ReadContainment ==
    \A b \in context :
        /\ b.out.kind \in {"content", "listing"} => IsWithin(b.out.of, project_path)
        /\ ~IsWithin(b.out.of, project_path) => b.out.kind = "restricted"

\* C6: no exception escapes debug_until_working.
C6_NoExceptionEscapes == pc # "raised"

\* C7: in run_comprehensive_debug every checklist session starts with an
\* empty history and no oracle call receives a history entry recorded by
\* another checklist session.
C7_IndependentSessions ==
    caller = "comprehensive" =>
        /\ (pc = "loop" /\ runs = 0) => debug_history = <<>>
        /\ \A i \in 1..Len(oracle_history) :
               oracle_history[i].command = target_command

\* The checklist sessions of run_comprehensive_debug.
ChecklistCommands ==
    {"go mod tidy", "npm install", "cd backend && go build",
     "cd frontend && npm run build", "tilt doctor", BackendStartup,
     FrontendStartup, "make test"}

\* C8: run_comprehensive_debug never short-circuits: whatever the sessions
\* did, it ends by returning a boolean for every result key after having
\* started every checklist session.
C8_NoShortCircuit ==
    (caller = "comprehensive" /\ pc \in {"done", "raised"}) =>
        /\ pc = "done"
        /\ { started[i] : i \in 1..Len(started) } = ChecklistCommands
        /\ results \in [ResultKeys -> BOOLEAN]

\* The place of a target command in the checklist order of the claim:
\* dependency install, backend build, frontend build, config validation,
\* service-startup probes, test suite.
ChecklistRank(command) ==
    IF command \in {"go mod tidy", "npm install"} THEN 1
    ELSE IF command = "cd backend && go build" THEN 2
    ELSE IF command = "cd frontend && npm run build" THEN 3
    ELSE IF command = "tilt doctor" THEN 4
    ELSE IF command \in {BackendStartup, FrontendStartup} THEN 5
    ELSE IF command = "make test" THEN 6
    ELSE 0

\* C9: run_comprehensive_debug runs its checklist strictly sequentially in
\* the fixed order: the sessions started so far follow the checklist order
\* without repetition, at most one command is in progress at any time, and
\* a session starts only when the previous one has returned to
\* run_comprehensive_debug and no command is in progress.
C9_SequentialOrder ==
    /\ [](caller = "comprehensive" =>
            /\ Len(running) <= 1
            /\ \A i, j \in 1..Len(started) :
                   i < j => /\ ChecklistRank(started[i]) >= 1
                            /\ ChecklistRank(started[i]) <= ChecklistRank(started[j])
                            /\ started[i] # started[j]
            /\ pc = "done" =>
                   { ChecklistRank(started[i]) : i \in 1..Len(started) } = 1..6)
    /\ [][(caller = "comprehensive" /\ Len(started') > Len(started)) =>
            /\ pc = "comprehensive"
            /\ running = <<>>
            /\ started # <<>> => ret \in {"True", "False"}]_vars

C9_Witness == caller = "comprehensive" /\ pc = "done" /\ fails = 2

\* C10: execute_command always returns a result: for a process that
\* exits, success iff the exit code is 0; for a timeout, failure with code
\* 124; for any other fault, failure with code 1; in both fault cases an
\* empty stdout and the fault description in stderr.
C10_RunnerResult ==
    /\ outcome.kind = "exit" =>
        /\ result.return_code = outcome.code
        /\ result.success <=> outcome.code = 0
        /\ result.stdout = outcome.stdout
    /\ outcome.kind = "timeout" =>
        /\ ~result.success
        /\ result.return_code = 124
        /\ result.stdout = <<>>
        /\ result.stderr = TimeoutMessage
    /\ outcome.kind = "fault" =>
        /\ ~result.success
        /\ result.return_code = 1
        /\ result.stdout = <<>>
        /\ result.stderr = FaultMessage
    /\ \A i \in 1..Len(applied.commands) :
        applied.commands[i].success <=> applied.commands[i].return_code = 0

C10_Witness == outcome.kind = "timeout" /\ result.return_code = 124 /\ pc = "extract"

\* Apply has acted on the remediation of the current iteration.
AfterApply == pc \in {"applied", "raised"}

\* The entries of files_to_create followed by those of files_to_update.
FileEntries(sol) == Get(sol.files_to_create) \o Get(sol.files_to_update)

\* The position of the last entry naming the path, 0 if none does.
LastNaming(entries, root, path) ==
    LET named == { i \in 1..Len(entries) :
                      entries[i].has_path /\ PathJoin(root, entries[i].path) = path }
    IN  IF named = {} THEN 0 ELSE CHOOSE i \in named : \A j \in named : j <= i

\* C11: apply_solution writes the files_to_create entries in the given
\* order and then the files_to_update entries in the given order, each to
\* os.path.join(project_path, path) with the content of the entry; when it
\* returns, every entry has been written, and when all writes succeeded
\* the content of each written path is the content of the last entry
\* naming that path.
C11_OrderPreserving ==
    AfterApply =>
        LET entries == FileEntries(solution)
            writes == applied.writes
            fs == FilesAfter(writes, Len(writes))
        IN  /\ Len(writes) <= Len(entries)
            /\ \A i \in 1..Len(writes) :
                   /\ writes[i].path = PathJoin(project_path, entries[i].path)
                   /\ writes[i].content = entries[i].content
            /\ pc = "applied" => Len(writes) = Len(entries)
            /\ (pc = "applied" /\ applied.success) =>
                   /\ DOMAIN fs = { writes[i].path : i \in 1..Len(writes) }
                   /\ \A path \in DOMAIN fs :
                          fs[path] = entries[LastNaming(entries, project_path, path)].content

\* Creates A and B, updates B: B ends with the content of the update.
C11_Witness ==
    /\ pc = "applied"
    /\ solution = SolFix
    /\ applied.success
    /\ FilesAfter(applied.writes, 3)[PathJoin(project_path, <<"n">>)] = "n2"
    /\ FilesAfter(applied.writes, 3)[PathJoin(project_path, <<"a">>)] = "a1"

\* A remediation of the documented shape: each list field is a list (or is
\* left out) and every file entry has a path and a content.
WellFormed(sol) ==
    /\ sol.files_to_create.kind # "not_list"
    /\ sol.files_to_update.kind # "not_list"
    /\ sol.commands_to_run.kind # "not_list"
    /\ \A i \in 1..Len(FileEntries(sol)) :
           FileEntries(sol)[i].has_path /\ FileEntries(sol)[i].has_content

C13_AdvisoryCommands ==
    AfterApply =>
        LET commands == Get(solution.commands_to_run)
            ran == applied.commands
        IN  /\ pc = "applied" => Len(ran) = Len(commands)
            /\ \A i \in 1..Len(ran) :
                   /\ ran[i].command = commands[i]
                   /\ ran[i].cwd = project_path
            /\ ran # <<>> => Len(applied.writes) = Len(FileEntries(solution))
            /\ pc = "applied" =>
                   (applied.success <=>
                        \A i \in 1..Len(applied.writes) : applied.writes[i].ok)

\* The first auxiliary command fails, the second still runs, and
\* apply_solution returns True.
C13_Witness ==
    /\ pc = "applied"
    /\ solution = SolFix
    /\ Len(applied.commands) = 2
    /\ ~applied.commands[1].success
    /\ applied.commands[2].success
    /\ applied.commands[2].command = "c2"
    /\ applied.success

\* The remediation comes from the fallbacks of analyze_and_fix_issue.
Degraded(sol) == sol.solution_type \in {"MANUAL_ANALYSIS", "ERROR"}

\* C14: a degraded remediation is a no-op: applying it writes no file, runs
\* no auxiliary command and raises nothing, and the loop then goes on to
\* its next pass with the iteration consumed.
C14_DegradedIsNoOp ==
    /\ []((AfterApply /\ Degraded(solution)) =>
            /\ pc = "applied"
            /\ applied.writes = <<>>
            /\ applied.commands = <<>>
            /\ runs = iteration + 1)
    /\ [][(pc = "applied" /\ Degraded(solution)) =>
            /\ pc' = "loop"
            /\ iteration' = iteration + 1
            /\ ret' = ret
            /\ runs' = runs]_vars

\* The first iteration's diagnosis was degraded and the target runs again
\* in the second.
C14_Witness ==
    /\ pc = "target_running"
    /\ iteration = 1
    /\ appended = 1
    /\ Degraded(debug_history[Len(debug_history)].solution)

\* The diagnosis of the current iteration used both oracle attempts and
\* ended with the parse-failure or error fallback.
DegradedAfterRetry == Degraded(solution) /\ oracle_calls = Attempts

\* C15: in an iteration whose diagnosis is degraded after both oracle
\* attempts, apply_solution is never called, yet the history entry of the
\* iteration is recorded with the degraded remediation.
C15_DegradedNeverApplied ==
    /\ []((DegradedAfterRetry /\ pc \in {"apply", "applied"}) =>
            /\ debug_history # <<>>
            /\ debug_history[Len(debug_history)].iteration = iteration + 1
            /\ debug_history[Len(debug_history)].solution = solution)
    /\ [][DegradedAfterRetry => applies' = applies]_vars

\* C15 as the code has it: in such an iteration the history entry is
\* recorded with the degraded remediation, and apply_solution is then
\* called once with it; the call writes no file, runs no auxiliary command
\* and returns True.
C15_DegradedAppliedAsNoOp ==
    /\ []((DegradedAfterRetry /\ pc \in {"apply", "applied"}) =>
            /\ debug_history # <<>>
            /\ debug_history[Len(debug_history)].iteration = iteration + 1
            /\ debug_history[Len(debug_history)].solution = solution
            /\ pc = "applied" => applies = appended)
    /\ [][(DegradedAfterRetry /\ pc = "apply") =>
            /\ applies' = applies + 1
            /\ pc' = "applied"
            /\ applied'.writes = <<>>
            /\ applied'.commands = <<>>
            /\ applied'.success]_vars

C15_Witness ==
    /\ pc = "applied"
    /\ DegradedAfterRetry
    /\ applies = 1
    /\ debug_history[Len(debug_history)].solution = ManualSolution

\* C16: a diagnosis that returns a degraded remediation has invoked the
\* oracle exactly twice (the request and one retry), and no diagnosis
\* invokes it a third time.
C16_DegradedAfterTwoCalls ==
    /\ oracle_calls <= Attempts
    /\ (pc \in {"append", "apply", "applied"} /\ Degraded(solution)) =>
           oracle_calls = Attempts

\* The target runs of the current session that have failed: every run
\* started, but the one in progress and the successful one that ended the
\* session.
FailedRuns == IF pc = "target_running" \/ Returned("True") THEN runs - 1 ELSE runs

\* C17: every failed run of the target is followed, before apply_solution
\* is called and before the target runs again, by exactly one append to
\* the history, of an entry with the iteration number, the target command
\* and the diagnosed remediation, degraded or not and whatever
\* apply_solution does later; the entries a session has added are as many
\* as its failed target runs once the failure has been diagnosed.
C17_HistoryReflectsAttempts ==
    /\ []((InSession \/ pc \in {"returned", "raised"}) =>
            /\ pc \in {"extract", "analyze", "append"} => appended = FailedRuns - 1
            /\ pc \notin {"extract", "analyze", "append"} => appended = FailedRuns
            /\ pc \in {"apply", "applied", "raised"} =>
                   LET e == debug_history[Len(debug_history)]
                   IN  /\ e.iteration = iteration + 1
                       /\ e.command = target_command
                       /\ e.solution = solution)
    /\ [][/\ debug_history' # debug_history =>
                /\ pc = "append"
                /\ Len(debug_history') = Len(debug_history) + 1
                /\ SubSeq(debug_history', 1, Len(debug_history)) = debug_history
                /\ appended' = appended + 1
          /\ applies' = applies + 1 => appended = FailedRuns
          /\ runs' = runs + 1 => appended = FailedRuns]_vars

\* Two failed runs of one session, the first diagnosed with a degraded
\* remediation, the second with one whose application failed: two entries.
C17_Witness ==
    /\ pc = "applied"
    /\ ~applied.success
    /\ runs = 2
    /\ appended = 2
    /\ Len(debug_history) = 2
    /\ Degraded(debug_history[1].solution)

\* The oracle has been called in the diagnosis of the current iteration.
OracleCalled == (pc = "analyze" /\ oracle_calls > 0) \/ pc = "append"

\* C18: the history given to the oracle is the most recent min(2, n)
\* entries of the n-entry history, in their order and unchanged, hence
\* never more than 2; no entry has been appended yet for the iteration
\* being diagnosed (the session has appended one entry per earlier failed
\* run and none for the current one).
C18_TrailingHistory ==
    OracleCalled =>
        LET n == Len(debug_history)
            k == IF n < 2 THEN n ELSE 2
        IN  /\ Len(oracle_history) = k
            /\ \A j \in 1..k : oracle_history[j] = debug_history[n - k + j]
            /\ Len(oracle_history) <= 2
            /\ appended = FailedRuns - 1

\* Three entries in the history at an oracle call: the last two are given.
C18_Witness ==
    /\ pc = "analyze"
    /\ oracle_calls = 1
    /\ Len(debug_history) = 3
    /\ oracle_history = <<debug_history[2], debug_history[3]>>

\* C19: when apply_solution returns False in an iteration before the last,
\* the session does not return: the loop goes to the next iteration, runs
\* the target command again, and a session returns True only on a
\* successful run of the target.
C19_ApplyFailureNotFatal ==
    /\ [](pc = "applied" => ret = "none")
    /\ [][(pc = "applied" /\ ~applied.success) =>
            /\ pc' = "loop"
            /\ iteration' = iteration + 1
            /\ ret' = "none"]_vars
    /\ [][(pc = "loop" /\ LoopContinues(iteration)) =>
            /\ pc' = "target_running"
            /\ running' = Append(running, target_command)
            /\ ret' = "none"]_vars
    /\ [][(InSession /\ ret' # "none") =>
            \/ pc = "target_running" /\ result'.success /\ ret' = "True"
            \/ pc = "loop" /\ ~LoopContinues(iteration) /\ ret' = "False"]_vars

\* apply_solution has returned False in the first of two iterations.
C19_Witness ==
    /\ pc = "applied"
    /\ ~applied.success
    /\ iteration + 1 < max_iterations
    /\ runs = 1

\* C20: for every candidate file or directory path taken from the failure
\* text that does not exist under the project root, the context holds a
\* block naming that path with a not-found marker.
C20_MissingCandidatesMarked ==
    pc = "analyze" =>
        /\ \A f \in files_to_read(result.stdout, target_command) :
               ~Exists(PathJoin(project_path, f)) =>
                   \E b \in context :
                       b.name = f /\ b.kind = "file" /\ b.out.kind = "not_found"
        /\ \A d \in dirs_to_list(result.stdout) :
               ~IsDir(PathJoin(project_path, d)) =>
                   \E b \in context :
                       b.name = d /\ b.kind = "dir" /\ b.out.kind = "not_a_directory"

AtDiagnosis == pc \in {"extract", "analyze", "append"}

\* C22: between the start of a session and its first diagnosis, and
\* between two consecutive diagnoses, exactly one command is executed, the
\* target command, and the diagnosis is of the result of that run.
C22_OneCommandPerDiagnosis ==
    AtDiagnosis =>
        /\ since_diagnosis = <<target_command>>
        /\ result.command = target_command

\* C22 as the code has it: the target command is run exactly once between
\* two diagnoses (and before the first), as the last command before the
\* diagnosis, which is of the failed result of that run; the commands
\* executed before it since the previous diagnosis are the auxiliary
\* commands of the previous remediation, in their order.
C22_OneTargetRunPerDiagnosis ==
    AtDiagnosis =>
        LET n == Len(since_diagnosis)
            aux == IF iteration = 0 THEN <<>>
                   ELSE Get(debug_history[Len(debug_history)].solution.commands_to_run)
        IN  /\ n = Len(aux) + 1
            /\ since_diagnosis[n] = target_command
            /\ SubSeq(since_diagnosis, 1, n - 1) = aux
            /\ result.command = target_command
            /\ result.cwd = project_path
            /\ ~result.success

\* The second diagnosis of a session whose first remediation ran two
\* auxiliary commands.
C22_Witness ==
    /\ pc = "analyze"
    /\ iteration = 1
    /\ since_diagnosis = <<"c1", "c2", target_command>>

\* C23: between the application of a remediation and the next run of the
\* target command the loop always pauses, whether apply_solution returned
\* True or False: every run of the target after the first one of a
\* session is preceded by the pause.
C23_AlwaysPauses ==
    [][(pc = "loop" /\ pc' = "target_running" /\ iteration > 0) => slept]_vars

\* C24: in run_comprehensive_debug every run of a service-startup probe,
\* the first and every re-run, of the backend and of the frontend, is
\* preceded by a port cleanup made after the previous probe run.
C24_CleanupBeforeEveryProbe ==
    [][(caller = "comprehensive" /\ pc = "loop" /\ pc' = "target_running"
            /\ IsStartupProbe(target_command)) => ports_clean]_vars

\* C25: whenever the fenced-block stage yields no parseable remediation
\* (no fenced block, or a fenced text that does not decode), the
\* first-brace/last-brace slice of the same response is tried: a response
\* whose slice decodes is never treated as a parse failure.
C25_SliceTriedAfterFence ==
    (~response_text.raises /\ response_text.fence.kind # "valid"
        /\ response_text.slice.kind = "valid") =>
            /\ pc = "append"
            /\ solution = response_text.slice.solution

\* C26: a remediation path that resolves outside the project root is
\* written there by apply_solution, the write failing only when the
\* filesystem refuses it, and read_file refuses the same path with the
\* access-restricted marker.
C26_WriteEscapesReadRefuses ==
    pc = "read" =>
        \A i \in 1..Len(applied.writes) :
            LET w == applied.writes[i]
            IN  /\ w.path = PathJoin(project_path, FileEntries(solution)[i].path)
                /\ ~IsWithin(w.path, project_path) =>
                       \A b \in context :
                           b.name = w.path => b.out.kind = "restricted"

\* C27: a session that returns False has applied max_iterations
\* remediations and run the target command max_iterations times, and no
\* run of the target command follows the last application: the commands
\* executed since the last diagnosis are the auxiliary commands of the
\* last remediation only; and at no point is the target command started
\* once max_iterations remediations have been applied.
C27_LastRemediationUnverified ==
    /\ [](pc = "returned" /\ ret = "False" =>
            /\ applies = max_iterations
            /\ runs = max_iterations
            /\ diagnoses = max_iterations
            /\ since_diagnosis =
                   Get(debug_history[Len(debug_history)].solution.commands_to_run)
            /\ \A k \in 1..Len(since_diagnosis) :
                   since_diagnosis[k] # target_command)
    /\ [][runs' > runs => applies < max_iterations]_vars

\* An exhausted session whose last remediation wrote files and ran its
\* auxiliary commands.
C27_Witness ==
    /\ pc = "returned"
    /\ ret = "False"
    /\ applies = max_iterations
    /\ runs = max_iterations
    /\ debug_history[Len(debug_history)].solution = SolFix
    /\ since_diagnosis = <<"c1", "c2">>

\* The position in the checklist of the session that backs a key.
StepOf(key) == CHOOSE k \in 1..Len(ComprehensiveSteps) : ComprehensiveSteps[k].key = key

\* C28: every item of the results dictionary is false until the session
\* that backs it has returned, is never reset, and is set by the return
\* of that session to "the session returned True"; 'dependencies' is set
\* by the return of the second dependency session to "both returned
\* True", the second session having been started whatever the first
\* returned; so at the return of run_comprehensive_debug every item says
\* whether its session, or both of its sessions, returned True.
C28_ResultsMirrorSessions ==
    /\ [](caller = "comprehensive" =>
            /\ \A key \in ResultKeys \ {"dependencies"} :
                   results[key] => step > StepOf(key)
            /\ results["dependencies"] => step > StepOf("frontend_deps")
            /\ deps.backend_deps => step > StepOf("backend_deps")
            /\ deps.frontend_deps => step > StepOf("frontend_deps")
            /\ step > StepOf("frontend_deps") =>
                   /\ SubSeq(started, 1, 2) = <<"go mod tidy", "npm install">>
                   /\ results["dependencies"] =
                          (deps.backend_deps /\ deps.frontend_deps))
    /\ [][\A key \in ResultKeys : results[key] => results'[key]]_vars
    /\ [][(caller = "comprehensive" /\ pc = "returned" /\ pc' = "comprehensive") =>
            LET key == ComprehensiveSteps[step].key
            IN  /\ key \in ResultKeys =>
                       results' = [results EXCEPT ![key] = (ret = "True")]
                /\ key = "backend_deps" =>
                       /\ results' = results
                       /\ deps' = [deps EXCEPT !.backend_deps = (ret = "True")]
                /\ key = "frontend_deps" =>
                       /\ deps' = [deps EXCEPT !.frontend_deps = (ret = "True")]
                       /\ results' = [results EXCEPT !["dependencies"] =
                                          (deps.backend_deps /\ ret = "True")]]_vars

\* run_comprehensive_debug has returned after a run in which the backend
\* dependency session returned False and every later session True.
C28_Witness ==
    /\ caller = "comprehensive"
    /\ pc = "done"
    /\ deps = [backend_deps |-> FALSE, frontend_deps |-> TRUE]
    /\ results = [k \in ResultKeys |-> k # "dependencies"]

\* The steps of one kind in the trace of a run_update call.
EventsOf(op) == { k \in 1..Len(update_trace) : update_trace[k].op = op }

\* C29: run_update returns True only when the last three steps of the
\* call are, in the same iteration, an oracle call that proposed
\* something, an apply_changes call that returned True (every write_file
\* returned True) and a verification run that succeeded; every
\* verification run directly follows an apply_changes call of the same
\* iteration that returned True, so none precedes the first application;
\* and a call makes at most max_iterations oracle calls and at most
\* max_iterations verification runs.
C29_TrueOnlyAfterVerifiedChange ==
    /\ (upc = "returned" /\ update_ret = "True") =>
           LET n == Len(update_trace)
               number == update_iteration + 1
           IN  /\ n >= 3
               /\ update_trace[n] = UpdateEvent("verify", number, TRUE)
               /\ update_trace[n - 1] = UpdateEvent("apply", number, TRUE)
               /\ update_trace[n - 2] = UpdateEvent("propose", number, TRUE)
               /\ ~ProposesNothing(changes)
               /\ ~update_applied.raised
               /\ Len(update_applied.writes) = NumWrites(changes)
               /\ \A k \in 1..Len(update_applied.writes) : update_applied.writes[k].ok
               /\ verification_result.success
               /\ verification_result.command = "make test"
    /\ \A k \in EventsOf("verify") :
           /\ k > 1
           /\ update_trace[k - 1] =
                  UpdateEvent("apply", update_trace[k].iteration, TRUE)
    /\ Cardinality(EventsOf("propose")) <= update_max_iterations
    /\ Cardinality(EventsOf("verify")) <= update_max_iterations

\* run_update returns True in its second iteration, after a first change
\* set whose verification failed.
C29_Witness ==
    /\ upc = "returned"
    /\ update_ret = "True"
    /\ update_iteration = 1
    /\ changes = ChgFix
    /\ Len(update_trace) = 6

\* The two early ends of the loop: nothing is proposed, or apply_changes
\* returned False.
EndsEarly ==
    \/ upc = "proposed" /\ ProposesNothing(changes)
    \/ upc = "applied" /\ ~update_applied.success

\* C30: in an iteration in which the oracle proposes nothing (an
\* unparseable response included) or apply_changes returns False, the
\* history entry of the iteration is already recorded and the next step
\* of run_update is to return False, with no verification run in that
\* iteration, whatever is left of the budget; and no oracle call of the
\* same run_update call follows its return.
C30_EarlyEnd ==
    /\ [](upc \in {"proposed", "applied"} =>
            /\ update_history # << >>
            /\ update_history[Len(update_history)] =
                   UpdateEntry(update_iteration + 1, changes)
            /\ \A k \in EventsOf("verify") :
                   update_trace[k].iteration < update_iteration + 1)
    /\ [](upc = "proposed" /\ changes = ParseFailure => EndsEarly)
    /\ [][EndsEarly =>
            /\ upc' = "returned"
            /\ update_ret' = "False"
            /\ update_trace' = update_trace
            /\ update_history' = update_history
            /\ update_iteration' = update_iteration]_vars
    /\ [][(upc \in {"returned", "idle"} /\ update_calls' = update_calls) =>
            update_trace' = update_trace]_vars

\* A second run_update call that ends in its first iteration because a
\* write failed, after a first call that ended in its first iteration on
\* an unparseable response.
C30_Witness ==
    /\ upc = "returned"
    /\ update_ret = "False"
    /\ update_calls = 2
    /\ update_iteration = 0
    /\ update_iteration + 1 < update_max_iterations
    /\ update_history = <<UpdateEntry(1, ParseFailure), UpdateEntry(1, ChgFix)>>
    /\ update_trace = <<UpdateEvent("propose", 1, TRUE), UpdateEvent("apply", 1, FALSE)>>

====
